---- MODULE Spec2Model ----
(***************************************************************************)
(* SavitarDB, the sharded in-memory vector store of src/main.go: the       *)
(* router hashID, the four point operations, and SearchVectors with its    *)
(* per-shard workers (searchShard), the two result channels and the merge. *)
(*                                                                         *)
(* Strings are sequences of code points, so that hashID can walk an id and *)
(* the merge can compare the formatted similarities the way Go compares    *)
(* strings.  A float64 is a fraction [num, den] with den > 0; the data of  *)
(* the model have integer norms, so sqrt is exact and so is every          *)
(* comparison of two similarities.                                         *)
(***************************************************************************)
EXTENDS Integers, Sequences, FiniteSets, TLC

\* ------------------------------------------------------------------ bounds

\* NewVectorDB(shardCount)
ShardCount == 2
\* the largest topN a caller passes to SearchVectors (the smallest is -1)
MaxTopN == 2

\* db.shardCount, the number of shards the store was built with
VARIABLE shardCount

\* ------------------------------------------------------------------ inputs

ShardIds == 0 .. (shardCount - 1)

\* the ids "", "a" and "ab"
Ids == { <<>>, <<97>>, <<97, 98>> }

\* the strings "" and "x", values of the metadata key "category"
StrEmpty == <<>>
StrX == << 120 >>

\* a Go map[string]string: nil, or a function from its keys to strings
NilMeta == [nil |-> TRUE, kv |-> [k \in {} |-> StrEmpty]]
EmptyMeta == [nil |-> FALSE, kv |-> [k \in {} |-> StrEmpty]]
CatMeta == [nil |-> FALSE, kv |-> [k \in {"category"} |-> StrX]]

NoFilters == [k \in {} |-> StrEmpty]

\* the records (data, metadata) and the searches (query, topN, filters) of
\* Spec, where point operations and one search interleave
Records == { << <<3, 4>>, CatMeta >>, << <<-4, 3>>, NilMeta >> }
Searches == { << <<1, 0>>, MaxTopN, NoFilters >> }

\* the records and the searches of SpecSearch, where a search runs on a store
\* that AddVector has filled
Datas == { <<3, 4>>, <<-3, 4>>, <<-4, 3>>, <<0, 0>> }
Metas == { NilMeta, EmptyMeta, CatMeta }
Queries == { <<1, 0>>, <<>> }
TopNs == -1 .. MaxTopN
Filters == { NoFilters,
             [k \in {"category"} |-> StrX],
             [k \in {"category"} |-> StrEmpty] }

\* ------------------------------------------------------------------ errors

ErrExists == "vector with this ID already exists"
ErrNotFound == "vector not found"
ErrLength == "vectors must have the same length"
ErrZero == "zero vector detected"
NoErr == "nil"

\* ------------------------------------------------------------------ helpers

Abs(n) == IF n < 0 THEN -n ELSE n

Min(a, b) == IF a < b THEN a ELSE b

\* the sequences that list the elements of S once each
Orders(S) ==
    { o \in [1 .. Cardinality(S) -> S] : \A i, j \in DOMAIN o : i # j => o[i] # o[j] }

\* the permutations of the sequence seq, as sequences
Perms(seq) ==
    { [i \in DOMAIN seq |-> seq[p[i]]] : p \in Orders(DOMAIN seq) }

Take(seq, n) == IF n <= 0 THEN <<>> ELSE SubSeq(seq, 1, Min(n, Len(seq)))

RECURSIVE Flatten(_)
Flatten(lists) ==
    IF lists = <<>> THEN <<>> ELSE Head(lists) \o Flatten(Tail(lists))

\* ------------------------------------------------------------------ router

\* hashLoop without the reduction modulo shardCount
RECURSIVE hashLoopNoMod(_, _, _)
hashLoopNoMod(id, i, hash) ==
    IF i > Len(id) THEN hash
    ELSE hashLoopNoMod(id, i + 1, hash * 31 + id[i])

\* the loop of hashID, from the i-th character of id on
RECURSIVE hashLoop(_, _, _)
hashLoop(id, i, hash) ==
    IF i > Len(id) THEN hash
    ELSE hashLoop(id, i + 1, (hash * 31 + id[i]) % shardCount)

hashID(id) == hashLoop(id, 1, 0)

\* ------------------------------------------------------------------ similarity

RECURSIVE SumTo(_, _, _)
SumTo(v1, v2, n) == IF n = 0 THEN 0 ELSE SumTo(v1, v2, n - 1) + v1[n] * v2[n]

\* A float64 similarity is kept exactly, as the pair (num, sq) of integers
\* that stands for num / math.Sqrt(sq).

CosineSimilarity(v1, v2) ==
    IF Len(v1) # Len(v2) THEN [err |-> ErrLength, num |-> 0, sq |-> 1]
    ELSE LET dotProduct == SumTo(v1, v2, Len(v1))
             normA == SumTo(v1, v1, Len(v1))
             normB == SumTo(v2, v2, Len(v2))
         IN  IF normA = 0 \/ normB = 0 THEN [err |-> ErrZero, num |-> 0, sq |-> 1]
             ELSE [err |-> NoErr, num |-> dotProduct, sq |-> normA * normB]

\* a > b on float64: x -> x * |x| is increasing, so the squares decide
FloatGreater(a, b) == a.num * Abs(a.num) * b.sq > b.num * Abs(b.num) * a.sq

\* the decimal digits of n, at least width of them
RECURSIVE Digits(_, _)
Digits(n, width) ==
    IF n < 10 /\ width <= 1 THEN << 48 + n >>
    ELSE Append(Digits(n \div 10, width - 1), 48 + (n % 10))

\* Square root by the long-hand method, two decimal places of the radicand
\* per step. One step: p.r is the root so far, p.rem what is left under it,
\* and the next places of the radicand come from the long division of
\* p.divRem by sq.
SqrtStep(sq, p) ==
    LET cur == p.rem * 100 + (p.divRem * 100) \div sq
        d == CHOOSE x \in 0 .. 9 :
                 /\ (20 * p.r + x) * x <= cur
                 /\ (x = 9 \/ (20 * p.r + x + 1) * (x + 1) > cur)
    IN  [divRem |-> (p.divRem * 100) % sq, r |-> 10 * p.r + d,
         rem |-> cur - (20 * p.r + d) * d]

\* the root after k more steps
RECURSIVE SqrtDigits(_, _, _)
SqrtDigits(sq, p, k) ==
    IF k = 0 THEN p.r
    ELSE CHOOSE r \in { SqrtDigits(sq, q, k - 1) : q \in { SqrtStep(sq, p) } } : TRUE

\* |sim| in millionths, rounded to the nearest: with t the integer part of
\* 2 * 10^6 * |num| / math.Sqrt(sq), that is (t + 1) \div 2
Micro(sim) ==
    LET a == 4 * sim.num * sim.num
        r0 == CHOOSE r \in 0 .. 2 : r * r <= a \div sim.sq /\ (r + 1) * (r + 1) > a \div sim.sq
        t == SqrtDigits(sim.sq, [divRem |-> a % sim.sq, r |-> r0,
                                 rem |-> a \div sim.sq - r0 * r0], 6)
    IN  (t + 1) \div 2

\* fmt.Sprintf("%f", sim): sign, integer part, ".", six rounded decimals
\* (sim and its millionths are bound as values, so each is computed once)
FormatF(sim) ==
    CHOOSE str \in UNION { { (IF s.num < 0 THEN << 45 >> ELSE <<>>)
                                \o Digits(micro \div 1000000, 1) \o << 46 >>
                                \o Digits(micro % 1000000, 6) :
                             micro \in { Micro(s) } } : s \in { sim } } : TRUE

\* a < b on Go strings, the comparison of an ascending sort
StrLess(a, b) ==
    \E i \in 1 .. Len(b) :
        /\ \A j \in 1 .. (i - 1) : j <= Len(a) /\ a[j] = b[j]
        /\ (i > Len(a) \/ a[i] < b[i])

\* a > b on Go strings: bytewise lexicographic
StrGreater(a, b) ==
    \E i \in 1 .. Len(a) :
        /\ \A j \in 1 .. (i - 1) : j <= Len(b) /\ a[j] = b[j]
        /\ (i > Len(b) \/ a[i] > b[i])

\* m[key] on a Go map: the zero value "" for a missing key or a nil map
MetaGet(m, key) == IF key \in DOMAIN m.kv THEN m.kv[key] ELSE StrEmpty

\* m[key] = value on a map that is not nil
MetaSet(m, key, value) ==
    [nil |-> FALSE,
     kv |-> [k \in DOMAIN m.kv \cup {key} |-> IF k = key THEN value ELSE m.kv[k]]]

matchesFilters(v, filters) ==
    \A key \in DOMAIN filters : MetaGet(v.Meta, key) = filters[key]

\* ------------------------------------------------------------------ state

\* the SearchVectors calls that can be in flight
Calls == { "search" }

VARIABLES
    shards,     \* shards[s]: the map shard.vectors of shard s, id -> Vector
    readers,    \* readers[s]: how many goroutines hold shard s's mu in read mode
    calls,      \* calls[c]: a SearchVectors call: its arguments, workers, channels, outcome
    ret,        \* what the last point operation returned
    crashed,    \* a goroutine panicked: the process is gone
    written     \* written[id]: the record the caller handed to the last successful
                \* AddVector / UpdateVector of id (absent once deleted)

vars == << shardCount, shards, readers, calls, ret, crashed, written >>

Vector(id, data, meta) == [Meta |-> meta, ID |-> id, Data |-> data]

\* Vector{}, the zero value GetVector returns with an error
ZeroVector == Vector(<<>>, <<>>, NilMeta)

NoVectors == [i \in {} |-> ZeroVector]

IdleCall ==
    [pc |-> "idle", query |-> <<>>, topN |-> 0, filters |-> [k \in {} |-> StrEmpty],
     worker |-> [s \in ShardIds |-> "none"],
     scan |-> [s \in ShardIds |-> [done |-> {}, results |-> <<>>]],
     resultsChan |-> <<>>, errorChan |-> <<>>,
     err |-> NoErr, isNil |-> TRUE, results |-> <<>>]

\* NewVectorDB: shardCount empty shards
Init ==
    /\ shardCount = ShardCount
    /\ shards = [s \in ShardIds |-> NoVectors]
    /\ readers = [s \in ShardIds |-> 0]
    /\ calls = [c \in Calls |-> IdleCall]
    /\ ret = [op |-> "none", err |-> NoErr, val |-> ZeroVector]
    /\ crashed = FALSE
    /\ written = NoVectors

\* m with key id set to v / without key id
MapPut(m, id, v) == [i \in DOMAIN m \cup {id} |-> IF i = id THEN v ELSE m[i]]
MapDel(m, id) == [i \in DOMAIN m \ {id} |-> m[i]]

\* ------------------------------------------------------------------ references
\* Meta is a Go map, a reference: the record in shard.vectors and every copy of
\* it (a candidate in a worker's result list) share one map object.  The object
\* of a stored record is kept in shards; a copy names it with live = TRUE while
\* it is still the object stored under its id.  UpdateVector and DeleteVector
\* drop the object from the shard; from then on no code writes it (searchShard
\* writes only to records it finds in the shard), so a copy keeps its contents
\* by value, live = FALSE.

ItemMeta(it) == IF it.live THEN shards[hashID(it.ID)][it.ID].Meta ELSE it.Meta

DetachItem(it, id, meta) ==
    IF it.live /\ it.ID = id THEN [it EXCEPT !.live = FALSE, !.Meta = meta] ELSE it

Detach(cs, id, meta) ==
    [c \in DOMAIN cs |->
        [cs[c] EXCEPT !.resultsChan =
            [n \in DOMAIN @ |-> [k \in DOMAIN @[n] |-> DetachItem(@[n][k], id, meta)]]]]

\* a Lock() that does not wait for the readers
CanLockAlways(s) == TRUE

\* one lock for the whole store instead of one per shard
CanLockGlobal(s) == \A t \in ShardIds : readers[t] = 0

\* mu.Lock() returns: nobody holds the shard's lock (the writers of the model
\* take and release it within one step, so only readers can be holding it)
CanLock(s) == readers[s] = 0

\* mu.RLock() returns: no writer holds the lock
CanRLock(s) == TRUE

\* ------------------------------------------------------------------ point operations

\* AddVector that stores every record in shard 0, whatever its id routes to
AddVectorFirstShard(v) ==
    LET s == 0 IN
    /\ ~crashed
    /\ CanLock(s)
    /\ IF v.ID \in DOMAIN shards[s]
       THEN /\ ret' = [op |-> "AddVector", err |-> ErrExists, val |-> ZeroVector]
            /\ UNCHANGED << shards, written >>
       ELSE /\ shards' = [shards EXCEPT ![s] = MapPut(@, v.ID, v)]
            /\ written' = MapPut(written, v.ID, v)
            /\ ret' = [op |-> "AddVector", err |-> NoErr, val |-> ZeroVector]
    /\ UNCHANGED << shardCount, readers, calls, crashed >>

\* AddVector without the check that the id exists
AddVectorOverwrite(v) ==
    LET s == hashID(v.ID) IN
    /\ ~crashed
    /\ CanLock(s)
    /\ shards' = [shards EXCEPT ![s] = MapPut(@, v.ID, v)]
    /\ written' = MapPut(written, v.ID, v)
    /\ ret' = [op |-> "AddVector", err |-> NoErr, val |-> ZeroVector]
    /\ UNCHANGED << shardCount, readers, calls, crashed >>

AddVector(v) ==
    LET s == hashID(v.ID) IN
    /\ ~crashed
    /\ CanLock(s)
    /\ IF v.ID \in DOMAIN shards[s]
       THEN /\ ret' = [op |-> "AddVector", err |-> ErrExists, val |-> ZeroVector]
            /\ UNCHANGED << shards, written >>
       ELSE /\ shards' = [shards EXCEPT ![s] = MapPut(@, v.ID, v)]
            /\ written' = MapPut(written, v.ID, v)
            /\ ret' = [op |-> "AddVector", err |-> NoErr, val |-> ZeroVector]
    /\ UNCHANGED << shardCount, readers, calls, crashed >>

UpdateVector(v) ==
    LET s == hashID(v.ID) IN
    /\ ~crashed
    /\ CanLock(s)
    /\ IF v.ID \notin DOMAIN shards[s]
       THEN /\ ret' = [op |-> "UpdateVector", err |-> ErrNotFound, val |-> ZeroVector]
            /\ UNCHANGED << shards, written, calls >>
       ELSE /\ shards' = [shards EXCEPT ![s] = MapPut(@, v.ID, v)]
            /\ written' = MapPut(written, v.ID, v)
            /\ calls' = Detach(calls, v.ID, shards[s][v.ID].Meta)
            /\ ret' = [op |-> "UpdateVector", err |-> NoErr, val |-> ZeroVector]
    /\ UNCHANGED << shardCount, readers, crashed >>

GetVector(id) ==
    LET s == hashID(id) IN
    /\ ~crashed
    /\ CanRLock(s)
    /\ IF id \notin DOMAIN shards[s]
       THEN ret' = [op |-> "GetVector", err |-> ErrNotFound, val |-> ZeroVector]
       ELSE ret' = [op |-> "GetVector", err |-> NoErr, val |-> shards[s][id]]
    /\ UNCHANGED << shardCount, shards, readers, calls, crashed, written >>

\* DeleteVector that reports success and leaves the record in the map
DeleteVectorKeeps(id) ==
    LET s == hashID(id) IN
    /\ ~crashed
    /\ CanLock(s)
    /\ IF id \notin DOMAIN shards[s]
       THEN ret' = [op |-> "DeleteVector", err |-> ErrNotFound, val |-> ZeroVector]
       ELSE ret' = [op |-> "DeleteVector", err |-> NoErr, val |-> ZeroVector]
    /\ UNCHANGED << shardCount, shards, written, calls, readers, crashed >>

DeleteVector(id) ==
    LET s == hashID(id) IN
    /\ ~crashed
    /\ CanLock(s)
    /\ IF id \notin DOMAIN shards[s]
       THEN /\ ret' = [op |-> "DeleteVector", err |-> ErrNotFound, val |-> ZeroVector]
            /\ UNCHANGED << shards, written, calls >>
       ELSE /\ shards' = [shards EXCEPT ![s] = MapDel(@, id)]
            /\ written' = MapDel(written, id)
            /\ calls' = Detach(calls, id, shards[s][id].Meta)
            /\ ret' = [op |-> "DeleteVector", err |-> NoErr, val |-> ZeroVector]
    /\ UNCHANGED << shardCount, readers, crashed >>

\* ------------------------------------------------------------------ searchShard

\* the loop of searchShard over the shard's map, in the iteration order `order`:
\* st.vectors is the shard's map (the loop writes Meta["similarity"] into the
\* records that pass the filters), st.results the candidates so far, st.err
\* the error it returned with, st.panic a write to a nil map
RECURSIVE scanLoop(_, _, _, _, _)
scanLoop(order, i, st, query, filters) ==
    IF i > Len(order) \/ st.err # NoErr \/ st.panic THEN st
    ELSE LET v == st.vectors[order[i]] IN
         IF ~matchesFilters(v, filters) THEN scanLoop(order, i + 1, st, query, filters)
         ELSE LET sim == CosineSimilarity(query, v.Data) IN
              IF sim.err # NoErr THEN [st EXCEPT !.err = sim.err, !.results = <<>>]
              ELSE IF v.Meta.nil THEN [st EXCEPT !.panic = TRUE]
              ELSE scanLoop(order, i + 1,
                       [st EXCEPT
                           !.vectors[order[i]].Meta = MetaSet(@, "similarity", FormatF(sim)),
                           !.results = Append(@, [ID |-> v.ID, Data |-> v.Data,
                                                  similarity |-> sim])],
                       query, filters)

\* sort.Slice(results, similarity descending): the slice reordered so that no
\* element is followed by one with a greater similarity (ties in any order)
SortedBySimilarity(results) ==
    { p \in Perms(results) :
        \A i, j \in DOMAIN p : i < j => ~FloatGreater(p[j].similarity, p[i].similarity) }

\* the first topN candidates, as copies of the stored records
TopResults(sorted, topN) ==
    LET top == Take(sorted, topN) IN
    [k \in DOMAIN top |->
        [ID |-> top[k].ID, Data |-> top[k].Data, live |-> TRUE, Meta |-> EmptyMeta]]

\* ------------------------------------------------------------------ SearchVectors

\* the call starts: two channels of capacity shardCount, one goroutine per shard
SearchStart(c, query, topN, filters) ==
    /\ ~crashed
    /\ calls[c].pc \in {"idle", "done"}
    /\ calls' = [calls EXCEPT ![c] =
                    [IdleCall EXCEPT !.pc = "running", !.query = query, !.topN = topN,
                                     !.filters = filters,
                                     !.worker = [s \in ShardIds |-> "spawned"]]]
    /\ UNCHANGED << shardCount, shards, readers, ret, crashed, written >>

\* searchShard: s.mu.RLock()
WorkerRLock(c, s) ==
    /\ ~crashed
    /\ calls[c].pc = "running"
    /\ calls[c].worker[s] = "spawned"
    /\ CanRLock(s)
    /\ readers' = [readers EXCEPT ![s] = @ + 1]
    /\ calls' = [calls EXCEPT ![c].worker[s] = "locked"]
    /\ UNCHANGED << shardCount, shards, ret, crashed, written >>

\* searchShard's scan of shard s for call c, from the loop to the send: the
\* loop, the sort, the first topN, then the goroutine's send on errorChan or
\* resultsChan and wg.Done(); a panic ends the process
scanShard(c, s) ==
    \E order \in Orders(DOMAIN shards[s]) :
        LET st == scanLoop(order, 1,
                           [vectors |-> shards[s], results |-> <<>>,
                            err |-> NoErr, panic |-> FALSE],
                           calls[c].query, calls[c].filters)
        IN  IF st.panic
            THEN \* assignment to an entry of a nil map: the process ends here,
                 \* nothing of its memory is observed afterwards
                 /\ crashed' = TRUE
                 /\ UNCHANGED << shards, calls >>
            ELSE /\ crashed' = FALSE
                 /\ shards' = [shards EXCEPT ![s] = st.vectors]
                 /\ IF st.err # NoErr
                    THEN calls' = [calls EXCEPT ![c].worker[s] = "finished",
                                                ![c].errorChan = Append(@, st.err)]
                    ELSE \E sorted \in SortedBySimilarity(st.results) :
                           calls' = [calls EXCEPT
                                       ![c].worker[s] = "finished",
                                       ![c].resultsChan =
                                           Append(@, TopResults(sorted, calls[c].topN))]

\* searchShard under the read lock, with the deferred RUnlock
WorkerScan(c, s) ==
    /\ ~crashed
    /\ calls[c].pc = "running"
    /\ calls[c].worker[s] = "locked"
    /\ scanShard(c, s)
    /\ readers' = IF crashed' THEN readers ELSE [readers EXCEPT ![s] = @ - 1]
    /\ UNCHANGED << shardCount, ret, written >>

\* a worker from RLock to wg.Done() in one step: what WorkerRLock followed by
\* WorkerScan does when no point operation runs in between
WorkerRun(c, s) ==
    /\ ~crashed
    /\ calls[c].pc = "running"
    /\ calls[c].worker[s] = "spawned"
    /\ CanRLock(s)
    /\ scanShard(c, s)
    /\ UNCHANGED << shardCount, readers, ret, written >>

\* sort.Slice(allResults, Meta["similarity"] descending, as strings)
SortedByMeta(allResults) ==
    { p \in Perms(allResults) :
        \A i, j \in DOMAIN p :
            i < j => ~StrGreater(MetaGet(ItemMeta(p[j]), "similarity"),
                                 MetaGet(ItemMeta(p[i]), "similarity")) }

\* the error check that fires only when every shard failed
HasErrorAll(c) == Len(calls[c].errorChan) = shardCount

\* len(errorChan) > 0
HasError(c) == Len(calls[c].errorChan) > 0

\* SearchVectors after wg.Wait(): the error check, the merge, the sort, the cut
SearchFinish(c) ==
    /\ ~crashed
    /\ calls[c].pc = "running"
    /\ \A s \in ShardIds : calls[c].worker[s] = "finished"
    /\ IF HasError(c)
       THEN /\ calls' = [calls EXCEPT ![c].pc = "done",
                                      ![c].err = Head(calls[c].errorChan),
                                      ![c].isNil = TRUE, ![c].results = <<>>,
                                      ![c].resultsChan = <<>>, ![c].errorChan = <<>>]
            /\ crashed' = FALSE
       ELSE \E sorted \in SortedByMeta(Flatten(calls[c].resultsChan)) :
              IF Len(sorted) > calls[c].topN /\ calls[c].topN < 0
              THEN \* allResults[:topN] with a negative topN
                   /\ crashed' = TRUE
                   /\ UNCHANGED calls
              ELSE /\ crashed' = FALSE
                   /\ calls' = [calls EXCEPT
                        ![c].pc = "done", ![c].err = NoErr, ![c].isNil = FALSE,
                        ![c].results =
                            LET cut == IF Len(sorted) > calls[c].topN
                                       THEN SubSeq(sorted, 1, calls[c].topN) ELSE sorted
                            IN  [k \in DOMAIN cut |->
                                    Vector(cut[k].ID, cut[k].Data, ItemMeta(cut[k]))],
                        ![c].resultsChan = <<>>, ![c].errorChan = <<>>]
    /\ UNCHANGED << shardCount, shards, readers, ret, written >>

\* ------------------------------------------------------------------ specification

Next ==
    \/ \E id \in Ids, r \in Records : AddVector(Vector(id, r[1], r[2]))
    \/ \E id \in Ids, r \in Records : UpdateVector(Vector(id, r[1], r[2]))
    \/ \E id \in Ids : GetVector(id)
    \/ \E id \in Ids : DeleteVector(id)
    \/ \E c \in Calls, a \in Searches : SearchStart(c, a[1], a[2], a[3])
    \/ \E c \in Calls, s \in ShardIds : WorkerRLock(c, s)
    \/ \E c \in Calls, s \in ShardIds : WorkerScan(c, s)
    \/ \E c \in Calls : SearchFinish(c)

Spec == Init /\ [][Next]_vars

\* SpecSearch: one SearchVectors call on a store filled by AddVector calls

\* the store after AddVector(f[i]) for every i in DOMAIN f
StoreOf(f) == [s \in ShardIds |-> [i \in {i \in DOMAIN f : hashID(i) = s} |-> f[i]]]

FilledMaps ==
    UNION { [D -> Datas \X Metas] : D \in SUBSET Ids }

InitSearch ==
    /\ shardCount = ShardCount
    /\ \E f \in FilledMaps :
         LET g == [i \in DOMAIN f |-> Vector(i, f[i][1], f[i][2])] IN
         /\ shards = StoreOf(g)
         /\ written = g
    /\ readers = [s \in ShardIds |-> 0]
    /\ calls = [c \in Calls |-> IdleCall]
    /\ ret = [op |-> "none", err |-> NoErr, val |-> ZeroVector]
    /\ crashed = FALSE

NextSearch ==
    \/ \E c \in Calls, query \in Queries, topN \in TopNs, filters \in Filters :
          calls[c].pc = "idle" /\ SearchStart(c, query, topN, filters)
    \/ \E c \in Calls, s \in ShardIds : WorkerRun(c, s)
    \/ \E c \in Calls : SearchFinish(c)

SpecSearch == InitSearch /\ [][NextSearch]_vars

\* SpecCrud: the point operations alone, on a store of 1 .. ShardCount shards,
\* with records that Vector.Validate rejects among the inputs

ErrEmptyData == "vector data cannot be empty"

\* Vector.Validate: the error of a record without data; every value of the
\* model is a finite number, so the NaN / Inf test never fires
Validate(v) == IF Len(v.Data) = 0 THEN ErrEmptyData ELSE NoErr

\* the records of the callers: <<data, metadata>>
CrudRecords == { << <<3, 4>>, CatMeta >>, << <<-4, 3>>, NilMeta >>, << <<>>, EmptyMeta >> }

InitCrud ==
    /\ shardCount \in 1 .. ShardCount
    /\ shards = [s \in ShardIds |-> NoVectors]
    /\ readers = [s \in ShardIds |-> 0]
    /\ calls = [c \in Calls |-> IdleCall]
    /\ ret = [op |-> "none", err |-> NoErr, val |-> ZeroVector]
    /\ crashed = FALSE
    /\ written = NoVectors

NextCrud ==
    \/ \E id \in Ids, r \in CrudRecords : AddVector(Vector(id, r[1], r[2]))
    \/ \E id \in Ids, r \in CrudRecords : UpdateVector(Vector(id, r[1], r[2]))
    \/ \E id \in Ids : GetVector(id)
    \/ \E id \in Ids : DeleteVector(id)

SpecCrud == InitCrud /\ [][NextCrud]_vars

\* SpecMain: the program of func main, three AddVector calls and one
\* SearchVectors call on a store of four shards

MainShardCount == 4
MainTopN == 2

StrVec1 == << 118, 101, 99, 49 >>
StrVec2 == << 118, 101, 99, 50 >>
StrVec3 == << 118, 101, 99, 51 >>
StrImage == << 105, 109, 97, 103, 101 >>
StrText == << 116, 101, 120, 116 >>

MainVectors ==
    << Vector(StrVec1, <<1, 2, 3>>, [nil |-> FALSE, kv |-> [k \in {"category"} |-> StrImage]]),
       Vector(StrVec2, <<4, 5, 6>>, [nil |-> FALSE, kv |-> [k \in {"category"} |-> StrText]]),
       Vector(StrVec3, <<7, 8, 9>>, [nil |-> FALSE, kv |-> [k \in {"category"} |-> StrImage]]) >>

\* the query [1.0, 2.0, 3.5] in halves: doubling a float64 is exact, so dot
\* product and norm, and with them every similarity, are those of the source
MainQuery == << 2, 4, 7 >>

MainFilters == [k \in {"category"} |-> StrImage]

InitMain ==
    /\ shardCount = MainShardCount
    /\ shards = [s \in ShardIds |-> NoVectors]
    /\ readers = [s \in ShardIds |-> 0]
    /\ calls = [c \in Calls |-> IdleCall]
    /\ ret = [op |-> "none", err |-> NoErr, val |-> ZeroVector]
    /\ crashed = FALSE
    /\ written = NoVectors

\* main runs its calls one after the other: the k-th AddVector after k - 1
\* records are stored, the search after the third
NextMain ==
    \/ \E k \in DOMAIN MainVectors :
          Cardinality(DOMAIN written) = k - 1 /\ AddVector(MainVectors[k])
    \/ \E c \in Calls :
          /\ Cardinality(DOMAIN written) = Len(MainVectors) /\ calls[c].pc = "idle"
          /\ SearchStart(c, MainQuery, MainTopN, MainFilters)
    \/ \E c \in Calls, s \in ShardIds : WorkerRLock(c, s)
    \/ \E c \in Calls, s \in ShardIds : WorkerScan(c, s)
    \/ \E c \in Calls : SearchFinish(c)

SpecMain == InitMain /\ [][NextMain]_vars

\* SpecFair: searches next to the point operations on one id per shard, with
\* every spawned goroutine and the caller of a running search scheduled again
\* and again, as the Go scheduler does; the callers of the
\* point operations may stop calling at any time

FairIds == { <<>>, <<97>> }

NextFair ==
    \/ \E id \in FairIds, r \in Records : AddVector(Vector(id, r[1], r[2]))
    \/ \E id \in FairIds, r \in Records : UpdateVector(Vector(id, r[1], r[2]))
    \/ \E id \in FairIds : GetVector(id)
    \/ \E id \in FairIds : DeleteVector(id)
    \/ \E c \in Calls, a \in Searches : SearchStart(c, a[1], a[2], a[3])
    \/ \E c \in Calls, s \in ShardIds : WorkerRLock(c, s)
    \/ \E c \in Calls, s \in ShardIds : WorkerScan(c, s)
    \/ \E c \in Calls : SearchFinish(c)

SpecFair ==
    /\ Init /\ [][NextFair]_vars
    /\ \A c \in Calls : WF_vars(SearchFinish(c))
    /\ \A c \in Calls, s \in 0 .. (ShardCount - 1) :
           WF_vars(WorkerRLock(c, s)) /\ WF_vars(WorkerScan(c, s))

\* ------------------------------------------------------------------ concurrent searches
\*
\* SpecTwo: two SearchVectors calls at a time on a store that no point
\* operation changes. Two workers can hold the read lock of one shard
\* together, so here the scan is not one step: every iteration of the loop of
\* searchShard is a step of its own.

TwoCalls == { "search", "other" }

TwoRecords == { << <<3, 4>>, EmptyMeta >>, << <<4, 3>>, EmptyMeta >> }

TwoSearches == { << <<1, 0>>, MaxTopN, NoFilters >>, << <<0, 1>>, MaxTopN, NoFilters >> }

\* the records the loop of call c on shard s has not visited yet
ToVisit(c, s) == DOMAIN shards[s] \ calls[c].scan[s].done

\* the ids whose Meta map the next iteration of that loop can write (line 183)
MetaWrites(c, s) ==
    { id \in ToVisit(c, s) :
        /\ matchesFilters(shards[s][id], calls[c].filters)
        /\ CosineSimilarity(calls[c].query, shards[s][id].Data).err = NoErr
        /\ ~shards[s][id].Meta.nil }

\* the ids whose Meta map it can read (matchesFilters, with a filter to test)
MetaReads(c, s) == { id \in ToVisit(c, s) : DOMAIN calls[c].filters # {} }

\* the workers of c and d both hold the read lock of shard s, and the next
\* iteration of c can write the Meta map that the next iteration of d reads
\* or writes
Racing(c, d, s) ==
    /\ c # d
    /\ calls[c].pc = "running" /\ calls[c].worker[s] = "locked"
    /\ calls[d].pc = "running" /\ calls[d].worker[s] = "locked"
    /\ MetaWrites(c, s) \cap (MetaWrites(d, s) \cup MetaReads(d, s)) # {}

\* one iteration of the loop of searchShard, on a record the range over the
\* map yields next
WorkerLoop(c, s) ==
    /\ ~crashed
    /\ calls[c].pc = "running"
    /\ calls[c].worker[s] = "locked"
    /\ \E id \in ToVisit(c, s) :
         LET st == scanLoop(<< id >>, 1,
                            [vectors |-> shards[s], results |-> calls[c].scan[s].results,
                             err |-> NoErr, panic |-> FALSE],
                            calls[c].query, calls[c].filters)
         IN  IF st.panic
             THEN /\ crashed' = TRUE
                  /\ UNCHANGED << shards, readers, calls >>
             ELSE IF st.err # NoErr
             THEN \* return nil, err: the deferred RUnlock, the send on errorChan
                  /\ calls' = [calls EXCEPT ![c].worker[s] = "finished",
                                            ![c].scan[s] = IdleCall.scan[s],
                                            ![c].errorChan = Append(@, st.err)]
                  /\ readers' = [readers EXCEPT ![s] = @ - 1]
                  /\ UNCHANGED << shards, crashed >>
             ELSE /\ shards' = [shards EXCEPT ![s] = st.vectors]
                  /\ calls' = [calls EXCEPT ![c].scan[s] =
                                  [done |-> @.done \cup { id }, results |-> st.results]]
                  /\ UNCHANGED << readers, crashed >>
    /\ UNCHANGED << shardCount, ret, written >>

\* searchShard after the loop: the sort, the first topN, the deferred RUnlock,
\* the send on resultsChan and wg.Done()
WorkerReturn(c, s) ==
    /\ ~crashed
    /\ calls[c].pc = "running"
    /\ calls[c].worker[s] = "locked"
    /\ ToVisit(c, s) = {}
    /\ \E sorted \in SortedBySimilarity(calls[c].scan[s].results) :
         calls' = [calls EXCEPT ![c].worker[s] = "finished",
                                ![c].scan[s] = IdleCall.scan[s],
                                ![c].resultsChan =
                                    Append(@, TopResults(sorted, calls[c].topN))]
    /\ readers' = [readers EXCEPT ![s] = @ - 1]
    /\ UNCHANGED << shardCount, shards, ret, crashed, written >>

\* two unsynchronised accesses to one Go map, one of them a write: the
\* runtime can end the process ("fatal error: concurrent map writes")
MapFault(c, d, s) ==
    /\ ~crashed
    /\ Racing(c, d, s)
    /\ crashed' = TRUE
    /\ UNCHANGED << shardCount, shards, readers, calls, ret, written >>

InitTwo ==
    /\ shardCount = ShardCount
    /\ \E f \in UNION { [D -> TwoRecords] : D \in SUBSET Ids } :
         LET g == [i \in DOMAIN f |-> Vector(i, f[i][1], f[i][2])] IN
         /\ shards = StoreOf(g)
         /\ written = g
    /\ readers = [s \in ShardIds |-> 0]
    /\ calls = [c \in TwoCalls |-> IdleCall]
    /\ ret = [op |-> "none", err |-> NoErr, val |-> ZeroVector]
    /\ crashed = FALSE

NextTwo ==
    \/ \E c \in TwoCalls, a \in TwoSearches :
          calls[c].pc = "idle" /\ SearchStart(c, a[1], a[2], a[3])
    \/ \E c \in TwoCalls, s \in ShardIds : WorkerRLock(c, s)
    \/ \E c \in TwoCalls, s \in ShardIds : WorkerLoop(c, s)
    \/ \E c \in TwoCalls, s \in ShardIds : WorkerReturn(c, s)
    \/ \E c, d \in TwoCalls, s \in ShardIds : MapFault(c, d, s)
    \/ \E c \in TwoCalls : SearchFinish(c)

SpecTwo == InitTwo /\ [][NextTwo]_vars

\* ------------------------------------------------------------------ nodes and cluster
\*
\* The Node / ClusterManager variant keeps its own stores. In its
\* specifications shardCount is len(cm.nodes), shards[n] is the shards map of
\* node n (from shard id to the vectors map of that Shard), written is the
\* record of the successful AddVector calls, and readers, calls and crashed
\* are not used.

ErrNoShard == "no shard found"

DefaultShard == "default-shard"

\* the shard ids the callers of AddShard use
ShardNames == { DefaultShard, "shard-1" }

\* shard.NewShard: an empty vectors map
NewShard == NoVectors

\* node.NewNode: a node with the default shard
NewNode == [k \in { DefaultShard } |-> NewShard]

\* Shard.AddVector on the vectors map m: the map and the error afterwards
ShardAddVector(m, v) ==
    IF v.ID \in DOMAIN m THEN [vectors |-> m, err |-> ErrExists]
    ELSE [vectors |-> MapPut(m, v.ID, v), err |-> NoErr]

\* Shard.GetVector on the vectors map m
ShardGetVector(m, id) ==
    IF id \in DOMAIN m THEN [val |-> m[id], err |-> NoErr]
    ELSE [val |-> ZeroVector, err |-> ErrNotFound]

\* Node.selectShard: the shards it can return, namely the one the range over
\* the map n.shards yields first; Go leaves the order of that iteration open
\* and starts it at a random entry. No shard: it returns nil.
selectShard(node, id) == DOMAIN node

\* selectNode that takes the first byte of the id instead of its length
selectNodeFirstByte(id) == IF Len(id) = 0 THEN 0 ELSE id[1] % shardCount

\* ClusterManager.selectNode: the index of the node
selectNode(id) == Len(id) % shardCount

\* Node.AddShard(shardID, shard.NewShard()) on node n
NodeAddShard(n, shardID) ==
    /\ shards' = [shards EXCEPT ![n] =
                    [k \in DOMAIN @ \cup { shardID } |->
                        IF k = shardID THEN NewShard ELSE @[k]]]
    /\ ret' = [op |-> "AddShard", err |-> NoErr, val |-> ZeroVector]
    /\ UNCHANGED << shardCount, readers, calls, crashed, written >>

\* Node.AddVector on node n
NodeAddVector(n, v) ==
    /\ IF selectShard(shards[n], v.ID) = {}
       THEN /\ ret' = [op |-> "AddVector", err |-> ErrNoShard, val |-> ZeroVector]
            /\ UNCHANGED << shards, written >>
       ELSE \E k \in selectShard(shards[n], v.ID) :
              LET res == ShardAddVector(shards[n][k], v) IN
              /\ shards' = [shards EXCEPT ![n][k] = res.vectors]
              /\ ret' = [op |-> "AddVector", err |-> res.err, val |-> ZeroVector]
              /\ written' = IF res.err = NoErr THEN MapPut(written, v.ID, v) ELSE written
    /\ UNCHANGED << shardCount, readers, calls, crashed >>

\* Node.GetVector on node n
NodeGetVector(n, id) ==
    /\ IF selectShard(shards[n], id) = {}
       THEN ret' = [op |-> "GetVector", err |-> ErrNoShard, val |-> ZeroVector]
       ELSE \E k \in selectShard(shards[n], id) :
              LET res == ShardGetVector(shards[n][k], id) IN
              ret' = [op |-> "GetVector", err |-> res.err, val |-> res.val]
    /\ UNCHANGED << shardCount, shards, readers, calls, crashed, written >>

\* ClusterManager.AddVector / GetVector
ClusterAddVector(v) == NodeAddVector(selectNode(v.ID), v)

ClusterGetVector(id) == NodeGetVector(selectNode(id), id)

\* SpecNode: one Node and its callers

InitNode ==
    /\ shardCount = 1
    /\ shards = [n \in ShardIds |-> NewNode]
    /\ readers = [n \in ShardIds |-> 0]
    /\ calls = [c \in {} |-> IdleCall]
    /\ ret = [op |-> "none", err |-> NoErr, val |-> ZeroVector]
    /\ crashed = FALSE
    /\ written = NoVectors

NextNode ==
    \/ \E shardID \in ShardNames : NodeAddShard(0, shardID)
    \/ \E id \in Ids, r \in Records : NodeAddVector(0, Vector(id, r[1], r[2]))
    \/ \E id \in Ids : NodeGetVector(0, id)

SpecNode == InitNode /\ [][NextNode]_vars

\* SpecCluster: NewClusterManager(nodeCount) and its callers

NodeCount == 2

InitCluster ==
    /\ shardCount \in 1 .. NodeCount
    /\ shards = [n \in ShardIds |-> NewNode]
    /\ readers = [n \in ShardIds |-> 0]
    /\ calls = [c \in {} |-> IdleCall]
    /\ ret = [op |-> "none", err |-> NoErr, val |-> ZeroVector]
    /\ crashed = FALSE
    /\ written = NoVectors

NextCluster ==
    \/ \E id \in Ids, r \in CrudRecords : ClusterAddVector(Vector(id, r[1], r[2]))
    \/ \E id \in Ids : ClusterGetVector(id)

SpecCluster == InitCluster /\ [][NextCluster]_vars

\* ------------------------------------------------------------------ claims

IdsOf(seq) == [k \in DOMAIN seq |-> seq[k].ID]

\* the stored records, over all shards
Stored == UNION { { shards[s][i] : i \in DOMAIN shards[s] } : s \in ShardIds }

\* the stored records that pass the filters, each with its similarity to query
Scored(query, filters) ==
    { [ID |-> v.ID, Data |-> v.Data, similarity |-> CosineSimilarity(query, v.Data)] :
        v \in { w \in Stored : matchesFilters(w, filters) } }

\* the id lists a single scan of all records can return: the records in an
\* order of descending similarity, cut to topN
RefScan(query, topN, filters) ==
    { IdsOf(Take(o, topN)) :
        o \in { p \in Orders(Scored(query, filters)) :
                  \A i, j \in DOMAIN p :
                      i < j => ~FloatGreater(p[j].similarity, p[i].similarity) } }

\* C1: a successful SearchVectors(query, topN, {}) with topN > 0 returns the ids
\* a single scan of all records, sorted by descending numeric similarity and
\* cut to topN, returns (ties in any order)
C1_MatchesReferenceScan ==
    \A c \in Calls :
        (/\ calls[c].pc = "done" /\ calls[c].err = NoErr
         /\ calls[c].topN > 0 /\ calls[c].filters = NoFilters)
        => IdsOf(calls[c].results) \in RefScan(calls[c].query, calls[c].topN, NoFilters)

\* C2: GetVector of an id returns the record handed to the last successful
\* AddVector / UpdateVector of that id, whatever ran in between
C2_GetReturnsInserted ==
    [][\A id \in Ids :
          (GetVector(id) /\ id \in DOMAIN written)
          => (ret'.err = NoErr /\ ret'.val = written[id])]_vars

\* C3: no call ends in a panic
C3_NoPanic == ~crashed

\* C4: SearchVectors with topN <= 0 or an empty query scans no shard and
\* returns the InvalidArgument error and no results
C4_InvalidArgument ==
    \A c \in Calls :
        (calls[c].pc # "idle" /\ (calls[c].topN <= 0 \/ calls[c].query = <<>>))
        => /\ \A s \in ShardIds : calls[c].worker[s] # "finished"
           /\ calls[c].pc = "done" => (calls[c].err = "InvalidArgument" /\ calls[c].isNil)

\* the errors the scan of shard s can end with: those of the stored records
\* that pass the filters
ShardErrors(s, query, filters) ==
    { CosineSimilarity(query, shards[s][i].Data).err :
        i \in { j \in DOMAIN shards[s] : matchesFilters(shards[s][j], filters) } }
    \ { NoErr }

\* C5: when the scan of at least one shard fails, SearchVectors returns an
\* error of a failing shard and a nil list, not a merge of the other shards
C5_FailFast ==
    \A c \in Calls :
        LET errs == UNION { ShardErrors(s, calls[c].query, calls[c].filters) : s \in ShardIds }
        IN  (calls[c].pc = "done" /\ errs # {})
            => (calls[c].err \in errs /\ calls[c].isNil /\ calls[c].results = <<>>)

\* a search that failed in one shard while another shard had candidates to give
C5_Witness ==
    \E c \in Calls : \E s1, s2 \in ShardIds :
        /\ calls[c].pc = "done" /\ calls[c].err # NoErr /\ calls[c].isNil
        /\ ShardErrors(s1, calls[c].query, calls[c].filters) # {}
        /\ ShardErrors(s2, calls[c].query, calls[c].filters) = {}
        /\ \E i \in DOMAIN shards[s2] : matchesFilters(shards[s2][i], calls[c].filters)

\* C6: every record SearchVectors returns has, for every filter key, that key
\* in its metadata with the filter's value
C6_FilterKeysPresent ==
    \A c \in Calls :
        (calls[c].pc = "done" /\ calls[c].err = NoErr)
        => \A k \in DOMAIN calls[c].results : \A key \in DOMAIN calls[c].filters :
              /\ key \in DOMAIN calls[c].results[k].Meta.kv
              /\ calls[c].results[k].Meta.kv[key] = calls[c].filters[key]

\* C7: AddVector of an id that was inserted and not deleted since fails with
\* the already-exists error and changes no shard
C7_SecondAddFails ==
    [][\A id \in Ids, r \in Records :
          (AddVector(Vector(id, r[1], r[2])) /\ id \in DOMAIN written)
          => (ret'.err = ErrExists /\ shards' = shards)]_vars

C7_Witness == ret.op = "AddVector" /\ ret.err = ErrExists

\* C8: hashID(id) is a shard index, and a stored id is held by the shard
\* hashID(id) and by no other
C8_RoutedShardOnly ==
    \A id \in Ids :
        /\ hashID(id) \in ShardIds
        /\ \A s \in ShardIds :
              id \in DOMAIN shards[s] => (s = hashID(id) /\ shards[s][id].ID = id)

\* every id is stored, the empty one too
C8_Witness == \A id \in Ids : id \in DOMAIN shards[hashID(id)]

\* the records of all shards but the one stored under id are the same after the step
OthersUnchanged(id) ==
    \A s \in ShardIds :
        /\ DOMAIN shards'[s] \ {id} = DOMAIN shards[s] \ {id}
        /\ \A i \in DOMAIN shards[s] \ {id} : shards'[s][i] = shards[s][i]

\* C9: UpdateVector, GetVector and DeleteVector of an id that is not stored
\* return not-found and change no shard; UpdateVector of a stored id replaces
\* the record, DeleteVector removes it
C9_NotFoundAndReplace ==
    [][\A id \in Ids :
          /\ \A r \in Records :
                UpdateVector(Vector(id, r[1], r[2]))
                => IF id \in DOMAIN written
                   THEN /\ ret'.err = NoErr
                        /\ shards'[hashID(id)][id] = Vector(id, r[1], r[2])
                        /\ OthersUnchanged(id)
                   ELSE ret'.err = ErrNotFound /\ shards' = shards
          /\ DeleteVector(id)
                => IF id \in DOMAIN written
                   THEN /\ ret'.err = NoErr
                        /\ \A s \in ShardIds : id \notin DOMAIN shards'[s]
                        /\ OthersUnchanged(id)
                   ELSE ret'.err = ErrNotFound /\ shards' = shards
          /\ (GetVector(id) /\ id \notin DOMAIN written)
                => (ret'.err = ErrNotFound /\ shards' = shards)]_vars

\* a record was deleted and its id is gone
C9_Witness ==
    /\ ret.op = "DeleteVector" /\ ret.err = NoErr
    /\ Stored # {}

\* C10: a point operation waits for no lock but that of the shard its id
\* routes to: it can run whenever nobody holds that shard's lock, also while
\* workers hold the read locks of other shards
C10_OnlyOwnShardLock ==
    \A id \in Ids :
        ~crashed =>
            /\ ENABLED GetVector(id)
            /\ readers[hashID(id)] = 0 =>
                  /\ ENABLED DeleteVector(id)
                  /\ \A r \in Records :
                        /\ ENABLED AddVector(Vector(id, r[1], r[2]))
                        /\ ENABLED UpdateVector(Vector(id, r[1], r[2]))

\* a worker holds the read lock of one shard while another shard's lock is free
C10_Witness ==
    /\ ~crashed
    /\ \E sA, sB \in ShardIds : readers[sB] > 0 /\ readers[sA] = 0


\* the similarity of a returned record to the query of the search
SimTo(query, item) == CosineSimilarity(query, item.Data)

\* C11: a successful SearchVectors with topN > 0 returns at most topN records,
\* no id twice, min(topN, number of stored records passing the filters) of
\* them, in an order in which the numeric similarity to the query never
\* increases
C11_TopNDescending ==
    \A c \in Calls :
        (calls[c].pc = "done" /\ calls[c].err = NoErr /\ calls[c].topN > 0)
        => LET res == calls[c].results
               matching == Scored(calls[c].query, calls[c].filters)
           IN  /\ Len(res) <= calls[c].topN
               /\ \A i, j \in DOMAIN res : i # j => res[i].ID # res[j].ID
               /\ Len(res) = Min(calls[c].topN, Cardinality(matching))
               /\ \A i, j \in DOMAIN res :
                      i < j => ~FloatGreater(SimTo(calls[c].query, res[j]),
                                             SimTo(calls[c].query, res[i]))

\* C12: AddVector stores only records that pass Vector.Validate: in every
\* reachable state every stored record has non-empty data
C12_StoredRecordsValid == \A v \in Stored : Validate(v) = NoErr

\* C13: the search of func main returns without error exactly the records
\* vec1 then vec3, whatever the order of the worker steps and of the messages
C13_MainReturnsVec1Vec3 ==
    \A c \in Calls :
        calls[c].pc = "done"
        => /\ calls[c].err = NoErr /\ ~calls[c].isNil
           /\ IdsOf(calls[c].results) = << StrVec1, StrVec3 >>

\* the search of func main has returned
C13_Witness ==
    \E c \in Calls :
        /\ calls[c].pc = "done" /\ calls[c].query = MainQuery
        /\ Len(calls[c].results) = MainTopN

\* C14: under fair scheduling every SearchVectors call that was started
\* returns, whatever point operations run next to it
C14_SearchReturns ==
    \A c \in Calls : (calls[c].pc = "running") ~> (calls[c].pc = "done")

C16_NodeRoutingStable ==
    [][\A id \in DOMAIN written :
          /\ NodeGetVector(0, id) => (ret'.err = NoErr /\ ret'.val = written[id])
          /\ \A r \in Records :
                NodeAddVector(0, Vector(id, r[1], r[2]))
                => (ret'.err = ErrExists /\ shards' = shards)]_vars

\* C17: in no reachable state do two holders of a shard's read lock access the
\* metadata of one stored record with at least one of them writing it
C17_NoMetaRace ==
    \A c, d \in DOMAIN calls, s \in ShardIds : ~Racing(c, d, s)

\* C18: a search returns the ids, in the order, that a scan of the store for
\* its own query returns, whether or not another search with another query
\* ran between its shard scans and its merge
C18_OwnQueryOnly ==
    \A c \in DOMAIN calls :
        (calls[c].pc = "done" /\ calls[c].err = NoErr /\ calls[c].topN > 0)
        => IdsOf(calls[c].results)
               \in RefScan(calls[c].query, calls[c].topN, calls[c].filters)

\* the union of the shard maps, as one map from id to record
Flat ==
    [id \in UNION { DOMAIN shards[s] : s \in ShardIds } |->
        shards[CHOOSE s \in ShardIds : id \in DOMAIN shards[s]][id]]

\* C19: every AddVector, UpdateVector, GetVector and DeleteVector call on the
\* sharded store returns what insert-if-absent, replace-if-present, lookup
\* and remove-if-present return on the single map Flat, and changes the
\* union of the shard maps as that operation changes the single map; no id
\* is in two shards, and the union is the map of the records written
C19_RefinesSingleMap ==
    [][/\ \A id \in Ids, r \in CrudRecords :
            LET v == Vector(id, r[1], r[2]) IN
            /\ AddVector(v)
               => IF id \in DOMAIN Flat
                  THEN ret'.err = ErrExists /\ Flat' = Flat
                  ELSE ret'.err = NoErr /\ Flat' = MapPut(Flat, id, v)
            /\ UpdateVector(v)
               => IF id \in DOMAIN Flat
                  THEN ret'.err = NoErr /\ Flat' = MapPut(Flat, id, v)
                  ELSE ret'.err = ErrNotFound /\ Flat' = Flat
       /\ \A id \in Ids :
            /\ GetVector(id)
               => /\ Flat' = Flat
                  /\ IF id \in DOMAIN Flat
                     THEN ret'.err = NoErr /\ ret'.val = Flat[id]
                     ELSE ret'.err = ErrNotFound
            /\ DeleteVector(id)
               => IF id \in DOMAIN Flat
                  THEN ret'.err = NoErr /\ Flat' = MapDel(Flat, id)
                  ELSE ret'.err = ErrNotFound /\ Flat' = Flat
       /\ \A id \in Ids : Cardinality({ s \in ShardIds : id \in DOMAIN shards'[s] }) <= 1
       /\ Flat' = written']_vars

\* on more than one shard, with records in two shards, one of them without
\* data, a lookup of an absent id has failed
C19_Witness ==
    /\ shardCount > 1
    /\ Cardinality({ s \in ShardIds : DOMAIN shards[s] # {} }) > 1
    /\ ret.op = "GetVector" /\ ret.err = ErrNotFound
    /\ \E id \in DOMAIN Flat : Flat[id].Data = <<>>

\* C20: in a cluster of nodes with one shard each, AddVector of an id succeeds
\* exactly when no earlier AddVector of it succeeded and fails with the
\* already-exists error otherwise, GetVector returns the vector added under
\* the id or the not-found error when none was, and an id is stored only in
\* the node with index len(id) mod nodeCount
C20_ClusterPlacement ==
    [][/\ \A id \in Ids, r \in CrudRecords :
            ClusterAddVector(Vector(id, r[1], r[2]))
            => IF id \in DOMAIN written
               THEN ret'.err = ErrExists /\ shards' = shards
               ELSE ret'.err = NoErr
       /\ \A id \in Ids :
            ClusterGetVector(id)
            => IF id \in DOMAIN written
               THEN ret'.err = NoErr /\ ret'.val = written[id]
               ELSE ret'.err = ErrNotFound
       /\ \A id \in Ids, n \in ShardIds :
            (\E k \in DOMAIN shards'[n] : id \in DOMAIN shards'[n][k])
            => n = Len(id) % shardCount]_vars

\* a cluster of more than one node with vectors in two of them, after an
\* AddVector that failed with the already-exists error
C20_Witness ==
    /\ shardCount > 1
    /\ Cardinality({ n \in ShardIds : \E k \in DOMAIN shards[n] : DOMAIN shards[n][k] # {} }) > 1
    /\ ret.op = "AddVector" /\ ret.err = ErrExists

====
